---- MODULE Spec2Model ----
(***************************************************************************)
(* The App component of frontend/AI_financial_analyst/src/App.tsx as a     *)
(* state machine: the React state (input, loading, result, error), the     *)
(* pending handlePredict invocations that are suspended at an await, and   *)
(* the pure functions parseFeatures and getRiskLevel with the JSX          *)
(* expressions that render a result.                                       *)
(*                                                                         *)
(* Text is a sequence of one-character strings.  A message is a sequence   *)
(* of strings whose concatenation is the message text (the pieces of a     *)
(* template literal).  A probability is an integer number of percent.      *)
(***************************************************************************)
EXTENDS Integers, Sequences, FiniteSets, TLC

VARIABLES input, loading, result, error, calls

vars == <<input, loading, result, error, calls>>

\* A value that may be null: None is null, Some(v) is the value v.
None == <<>>

Some(v) == <<v>>

---------------------------------------------------------------------------
(* Bounds of the model *)

\* Short inputs have 1..ShortLen comma-separated items.
ShortLen == 2

\* Long inputs have FeatureCount-Slack .. FeatureCount+Slack items.
Slack == 1

\* At most MaxPending handlePredict invocations are suspended at once.
MaxPending == 2

---------------------------------------------------------------------------
(* Strings *)

\* The number of features parseFeatures requires.
FeatureCount == 46

Digits == <<"0", "1", "2", "3", "4", "5", "6", "7", "8", "9">>

IsDigit(c) == \E i \in 1..10 : Digits[i] = c

DigitVal(c) == (CHOOSE i \in 1..10 : Digits[i] = c) - 1

\* String.prototype.trim: whitespace is removed at both ends.
IsSpace(c) == c \in {" ", "\n"}

\* The places of s that hold no whitespace.
Solid(s) == { i \in 1..Len(s) : ~IsSpace(s[i]) }

Min(S) == CHOOSE i \in S : \A j \in S : i <= j

Max(S) == CHOOSE i \in S : \A j \in S : j <= i

TrimLeft(s) == IF Solid(s) = {} THEN <<>> ELSE SubSeq(s, Min(Solid(s)), Len(s))

TrimRight(s) == IF Solid(s) = {} THEN <<>> ELSE SubSeq(s, 1, Max(Solid(s)))

Trim(s) == TrimRight(TrimLeft(s))

\* String.prototype.split(','): the items between the commas, empty ones kept.
\* Item k runs from after comma k-1 (or the start) to before comma k (or the
\* end).
Commas(s) == { i \in 1..Len(s) : s[i] = "," }

Split(s) ==
    LET commas == Commas(s)
        ranked == { <<Cardinality({ j \in commas : j < i }) + 1, i>> : i \in commas }
        comma == [k \in 1..Cardinality(commas) |-> (CHOOSE p \in ranked : p[1] = k)[2]]
        from(k) == IF k = 1 THEN 1 ELSE comma[k - 1] + 1
        to(k) == IF k > Cardinality(commas) THEN Len(s) ELSE comma[k] - 1
    IN  [k \in 1..(Cardinality(commas) + 1) |-> SubSeq(s, from(k), to(k))]

\* The decimal digits of a natural number, as a template literal prints it.
RECURSIVE Decimal(_)
Decimal(n) ==
    IF n < 10 THEN <<Digits[n + 1]>> ELSE Append(Decimal(n \div 10), Digits[(n % 10) + 1])

---------------------------------------------------------------------------
(* parseFloat and isNaN *)

NaN == [kind |-> "nan"]

Infinity(neg) == [kind |-> "inf", neg |-> neg]

\* The finite number (-1)^neg * mant * 10^exp.
Finite(neg, mant, exp) == [kind |-> "finite", neg |-> neg, mant |-> mant, exp |-> exp]

\* The largest decimal order of magnitude of a finite double (1.79...e308).
MaxDoubleOrder == 308

\* The longest prefix of s that is all digits.
TakeDigits(s) ==
    SubSeq(s, 1, Max({ n \in 0..Len(s) : \A i \in 1..n : IsDigit(s[i]) }))

RECURSIVE DigitsValue(_)
DigitsValue(ds) ==
    IF ds = <<>> THEN 0 ELSE 10 * DigitsValue(SubSeq(ds, 1, Len(ds) - 1)) + DigitVal(ds[Len(ds)])

RECURSIVE StripZeros(_)
StripZeros(ds) ==
    IF ds # <<>> /\ Head(ds) = "0" THEN StripZeros(Tail(ds)) ELSE ds

Drop(s, n) == SubSeq(s, n + 1, Len(s))

StartsWith(s, p) == Len(s) >= Len(p) /\ SubSeq(s, 1, Len(p)) = p

InfinityText == <<"I", "n", "f", "i", "n", "i", "t", "y">>

\* The value of sign, digits and decimal exponent as a double: a magnitude
\* above the largest finite double is Infinity.  The order of magnitude
\* decides; at the order of the largest double the leading digit does
\* (1.8e308 .. 1.99e308 are taken as finite: no text of the model is there).
ToDouble(neg, ds, exp) ==
    LET sig == StripZeros(ds)
        order == Len(sig) + exp - 1
    IN  IF sig = <<>> THEN Finite(neg, 0, 0)
        ELSE IF order > MaxDoubleOrder
                \/ (order = MaxDoubleOrder /\ DigitVal(Head(sig)) >= 2)
             THEN Infinity(neg)
        ELSE Finite(neg, DigitsValue(sig), exp)

\* The exponent part after the mantissa: e or E, an optional sign and at
\* least one digit; anything else is not part of the literal.
ExponentDigits(s) ==
    IF s # <<>> /\ Head(s) \in {"e", "E"}
    THEN TakeDigits(IF Len(s) > 1 /\ s[2] \in {"+", "-"} THEN Drop(s, 2) ELSE Tail(s))
    ELSE <<>>

Exponent(s) ==
    IF ExponentDigits(s) = <<>> THEN 0
    ELSE IF s[2] = "-" THEN 0 - DigitsValue(ExponentDigits(s))
    ELSE DigitsValue(ExponentDigits(s))

\* The digits after a decimal point at the head of s.
FractionDigits(s) == IF s # <<>> /\ Head(s) = "." THEN TakeDigits(Tail(s)) ELSE <<>>

AfterFraction(s) ==
    IF s # <<>> /\ Head(s) = "." THEN Drop(s, 1 + Len(FractionDigits(s))) ELSE s

\* The literal has integer digits int and fraction digits frac, and rest
\* follows them.
ParseMantissa(neg, int, frac, rest) ==
    IF int = <<>> /\ frac = <<>> THEN NaN
    ELSE ToDouble(neg, int \o frac, Exponent(rest) - Len(frac))

\* s follows the integer digits int.
ParseDigits(neg, int, s) ==
    ParseMantissa(neg, int, FractionDigits(s), AfterFraction(s))

\* s follows the optional sign.
ParseUnsigned(neg, s) ==
    IF StartsWith(s, InfinityText) THEN Infinity(neg)
    ELSE ParseDigits(neg, TakeDigits(s), Drop(s, Len(TakeDigits(s))))

ParseSigned(s) ==
    ParseUnsigned(s # <<>> /\ Head(s) = "-",
                  IF s # <<>> /\ Head(s) \in {"+", "-"} THEN Tail(s) ELSE s)

\* parseFloat: leading whitespace is skipped and the longest prefix that is a
\* decimal literal is converted; what follows the prefix is ignored; with no
\* such prefix the result is NaN.
parseFloat(text) == ParseSigned(TrimLeft(text))

isNaN(num) == num.kind = "nan"

---------------------------------------------------------------------------
(* Messages *)

\* `Invalid number: ${item.trim()}`
InvalidNumber(item) == <<"Invalid number: ">> \o item

\* `Expected 46 features, but got ${numbers.length}`
ExpectedCount(n) == <<"Expected 46 features, but got ">> \o Decimal(n)

PleaseEnter == <<"Please enter exactly 46 comma-separated numbers">>

Unexpected == <<"An unexpected error occurred">>

\* `HTTP ${response.status}: ${response.statusText}`
HttpMessage(response) ==
    <<"HTTP ">> \o Decimal(response.status) \o <<": ">> \o response.statusText

\* A string is truthy when it is not empty.
Truthy(message) == \E i \in 1..Len(message) : message[i] # ""

\* err instanceof Error ? err.message : fallback
MessageOf(err, fallback) == IF err.isError THEN err.message ELSE fallback

Error(message) == [isError |-> TRUE, message |-> message]

---------------------------------------------------------------------------
(* parseFeatures *)

Returned(value) == [kind |-> "return", value |-> value]

Thrown(err) == [kind |-> "throw", err |-> err]

\* The callback of map, over the items in order: the first item that
\* parseFloat turned into NaN throws.
Converted(items, nums) ==
    LET bad == { i \in 1..Len(items) : isNaN(nums[i]) }
    IN  IF bad # {} THEN Thrown(Error(InvalidNumber(Trim(items[Min(bad)]))))
        ELSE Returned(nums)

MapItems(items) ==
    Converted(items, [i \in 1..Len(items) |-> parseFloat(Trim(items[i]))])

\* CheckCount with the comparison numbers.length < 46.
CheckCountTooFew(numbers) ==
    IF numbers.kind = "throw" THEN numbers
    ELSE IF Len(numbers.value) < FeatureCount
         THEN Thrown(Error(ExpectedCount(Len(numbers.value))))
    ELSE Returned(Some(numbers.value))

\* The check of numbers.length.
CheckCount(numbers) ==
    IF numbers.kind = "throw" THEN numbers
    ELSE IF Len(numbers.value) # FeatureCount
         THEN Thrown(Error(ExpectedCount(Len(numbers.value))))
    ELSE Returned(Some(numbers.value))

\* The body of the try block of parseFeatures, after the trim.
ParseTrimmed(trimmed) ==
    IF trimmed = <<>> THEN Returned(None) ELSE CheckCount(MapItems(Split(trimmed)))

\* The catch block of parseFeatures: what was thrown is thrown again as an
\* Error with the same message.
Rethrow(r) ==
    IF r.kind = "throw"
    THEN Thrown(Error(MessageOf(r.err, <<"Invalid input format">>)))
    ELSE r

\* parseFeatures: null for blank text, the numbers for FeatureCount items that
\* all convert, and otherwise an Error with the message of the failure.
parseFeatures(inputText) == Rethrow(ParseTrimmed(Trim(inputText)))

---------------------------------------------------------------------------
(* JSON *)

JsonNull == [kind |-> "null"]

JsonNumber(num) == [kind |-> "number", num |-> num]

JsonObject(props) == [kind |-> "object", props |-> props]

\* JSON.stringify of a number: a number that is not finite becomes null.
StringifyNumber(num) == IF num.kind = "finite" THEN JsonNumber(num) ELSE JsonNull

\* JSON.stringify({ features })
Stringify(features) ==
    JsonObject([features |-> [i \in 1..Len(features) |-> StringifyNumber(features[i])]])

\* value.key, undefined (None) when the object has no such property.
Get(value, key) ==
    IF key \in DOMAIN value.props THEN Some(value.props[key]) ELSE None

---------------------------------------------------------------------------
(* handlePredict *)

\* The state setters a step calls: None leaves a state alone, Some(v) sets it.
Setters(e, r, l, send) == [setError |-> e, setResult |-> r, setLoading |-> l, send |-> send]

Apply(old, set) == IF set = None THEN old ELSE set[1]

\* A handlePredict invocation suspended at fetch, with the body it posted.
AtFetch(body) == [stage |-> "fetch", body |-> body, response |-> None]

\* AfterParse with a parse failure swallowed: the POST goes out with no
\* features.
AfterParseSendAnyway(features) ==
    IF features.kind = "throw" \/ features.value = None
    THEN Setters(Some(None), Some(None), Some(TRUE), <<AtFetch(Stringify(<<>>))>>)
    ELSE Setters(Some(None), Some(None), Some(TRUE),
                 <<AtFetch(Stringify(features.value[1]))>>)

\* AfterParse without setLoading(true).
AfterParseNoLoading(features) ==
    IF features.kind = "throw"
    THEN Setters(Some(Some(MessageOf(features.err, Unexpected))), Some(None),
                 Some(FALSE), <<>>)
    ELSE IF features.value = None
    THEN Setters(Some(Some(PleaseEnter)), Some(None), Some(FALSE), <<>>)
    ELSE Setters(Some(None), Some(None), None,
                 <<AtFetch(Stringify(features.value[1]))>>)

\* AfterParse without setResult(null).
AfterParseKeepResult(features) ==
    IF features.kind = "throw"
    THEN Setters(Some(Some(MessageOf(features.err, Unexpected))), None,
                 Some(FALSE), <<>>)
    ELSE IF features.value = None
    THEN Setters(Some(Some(PleaseEnter)), None, Some(FALSE), <<>>)
    ELSE Setters(Some(None), None, Some(TRUE),
                 <<AtFetch(Stringify(features.value[1]))>>)

\* handlePredict after parseFeatures: the prior error and result are cleared
\* first; a failure is shown (and finally clears loading); otherwise loading
\* is set and the POST is issued.
AfterParse(features) ==
    IF features.kind = "throw"
    THEN Setters(Some(Some(MessageOf(features.err, Unexpected))), Some(None),
                 Some(FALSE), <<>>)
    ELSE IF features.value = None
    THEN Setters(Some(Some(PleaseEnter)), Some(None), Some(FALSE), <<>>)
    ELSE Setters(Some(None), Some(None), Some(TRUE),
                 <<AtFetch(Stringify(features.value[1]))>>)

\* handlePredict up to its first await.
handlePredict(inputText) == AfterParse(parseFeatures(inputText))

\* The TypeError of errorData.detail when errorData is null.
NullDetailError == Error(<<"Cannot read properties of null (reading 'detail')">>)

\* fetch rejected: the catch block shows the message, finally clears loading.
fetchRejected(err) ==
    Setters(Some(Some(MessageOf(err, Unexpected))), None, Some(FALSE), <<>>)

\* jsonSettled with setLoading(false) at the end of the try block instead of
\* in finally: a throw leaves loading set.
jsonSettledNoFinally(response) ==
    IF response.body.kind = "invalid"
    THEN Setters(Some(Some(MessageOf(response.body.err, Unexpected))), None, None, <<>>)
    ELSE IF ~response.ok
    THEN Setters(Some(Some(HttpMessage(response))), None, None, <<>>)
    ELSE Setters(None,
                 Some(IF response.body.value.kind = "null" THEN None
                      ELSE Some(response.body.value)),
                 Some(FALSE), <<>>)

\* response.json() settled: a body that is not JSON rejects; a non-OK
\* response throws the detail of the body or, when that is falsy, the status
\* message (reading the detail of a null body throws a TypeError); an OK
\* response sets the result.  finally clears loading.
jsonSettled(response) ==
    IF response.body.kind = "invalid"
    THEN Setters(Some(Some(MessageOf(response.body.err, Unexpected))), None,
                 Some(FALSE), <<>>)
    ELSE LET data == response.body.value
             detail == Get(data, "detail")
         IN  IF ~response.ok /\ data.kind = "null"
             THEN Setters(Some(Some(MessageOf(NullDetailError, Unexpected))), None,
                          Some(FALSE), <<>>)
             ELSE IF ~response.ok
             THEN Setters(Some(Some(IF detail # None /\ Truthy(detail[1])
                                    THEN detail[1] ELSE HttpMessage(response))),
                          None, Some(FALSE), <<>>)
             ELSE Setters(None,
                          Some(IF data.kind = "null" THEN None ELSE Some(data)),
                          Some(FALSE), <<>>)

\* The submit button disabled for blank input only.
SubmitDisabledBlankOnly == Trim(input) = <<>>

\* disabled={loading || !input.trim()} of the submit button.
SubmitDisabled == loading \/ Trim(input) = <<>>

\* disabled={loading} of the textarea.
InputDisabled == loading

---------------------------------------------------------------------------
(* Rendering of a result; a probability is a number of percent *)

\* getRiskLevel: below 0.3 Low, below 0.7 Medium, otherwise High.
getRiskLevel(probability) ==
    IF probability < 30 THEN [level |-> "Low", color |-> "text-emerald-600"]
    ELSE IF probability < 70 THEN [level |-> "Medium", color |-> "text-amber-600"]
    ELSE [level |-> "High", color |-> "text-red-600"]

\* The class of the risk bar.
riskBarColour(probability) ==
    IF probability > 70 THEN "from-red-500 to-red-600"
    ELSE IF probability > 30 THEN "from-amber-500 to-amber-600"
    ELSE "from-emerald-500 to-emerald-600"

\* The recommendation text.
recommendation(probability) ==
    IF probability > 70 THEN "High probability of default"
    ELSE IF probability > 30 THEN "Moderate risk"
    ELSE "Low default risk"

---------------------------------------------------------------------------
(* The user's texts and the server's responses *)

One == <<"1">>

\* Items a text is built from: numbers, items parseFloat turns into NaN
\* ("abc", "x", the empty item), an item with a numeric prefix ("1a") and
\* items that convert to Infinity.
Items ==
    { One,
      <<" ", "2", ".", "5">>,
      <<"-", "3", "e", "2", " ">>,
      <<"a", "b", "c">>,
      <<"x">>,
      <<>>,
      <<"1", "a">>,
      InfinityText,
      <<"1", "e", "9", "9", "9">> }

\* items joined by commas.
RECURSIVE Join(_)
Join(items) ==
    IF Len(items) = 1 THEN items[1]
    ELSE LET half == Len(items) \div 2
         IN  Join(SubSeq(items, 1, half)) \o <<",">>
                 \o Join(SubSeq(items, half + 1, Len(items)))

\* n items, all "1" except item a at place i and item b at place j.
Build(n, i, a, j, b) ==
    Join([k \in 1..n |-> IF k = i THEN a ELSE IF k = j THEN b ELSE One])

Lengths == (1..ShortLen) \cup ((FeatureCount - Slack)..(FeatureCount + Slack))

\* The texts the user can put in the textarea: one item, or FeatureCount
\* items, with any item first; numbers only, of every length; a bad item first
\* and another last; an empty item last (a trailing comma); blank texts.
Inputs ==
    { Build(n, 1, a, 1, a) : n \in {1, FeatureCount}, a \in Items }
    \cup { Build(n, 1, One, 1, One) : n \in Lengths }
    \cup { Build(n, 1, <<"a", "b", "c">>, n, <<"x">>) : n \in Lengths \ {1} }
    \cup { Build(n, n, <<>>, n, <<>>) : n \in Lengths \ {1} }
    \cup { <<>>, <<" ", " ">> }

\* Probabilities, in percent: 0, 10, ..., 100.
Probabilities == { 10 * k : k \in 0..10 }

PredictionResult(prediction, probability) ==
    JsonObject([prediction |-> prediction, default_probability |-> probability])

Json(value) == [kind |-> "json", value |-> value]

\* A body response.json() rejects, with its SyntaxError.
NotJson == [kind |-> "invalid",
            err |-> Error(<<"Unexpected token < in JSON at position 0">>)]

OkBodies ==
    { Json(PredictionResult(c, p)) : c \in {0, 1}, p \in Probabilities }
    \cup { Json(JsonNull), NotJson }

ErrorBodies ==
    { Json(JsonObject([detail |-> <<"model unavailable">>])),
      Json(JsonObject([detail |-> <<"">>])),
      Json(JsonObject([message |-> <<"no detail here">>])),
      Json(JsonNull),
      NotJson }

Responses ==
    { [ok |-> TRUE, status |-> 200, statusText |-> <<"OK">>, body |-> b] : b \in OkBodies }
    \cup { [ok |-> FALSE, status |-> 500, statusText |-> <<"Internal Server Error">>,
            body |-> b] : b \in ErrorBodies }

\* What fetch rejects with.
FetchErrors == { Error(<<"Failed to fetch">>) }

---------------------------------------------------------------------------
(* The state machine *)

Init ==
    /\ input = <<>>
    /\ loading = FALSE
    /\ result = None
    /\ error = None
    /\ calls = <<>>

Remove(s, i) == SubSeq(s, 1, i - 1) \o SubSeq(s, i + 1, Len(s))

\* The setters of one step take effect, in the order error, result, loading.
Render(set) ==
    /\ error' = Apply(error, set.setError)
    /\ result' = Apply(result, set.setResult)
    /\ loading' = Apply(loading, set.setLoading)

\* The state after the synchronous part of handlePredict.
Start(set) ==
    /\ Render(set)
    /\ calls' = calls \o set.send

\* onChange of the textarea.
setInput(value) ==
    /\ ~InputDisabled
    /\ input' = value
    /\ UNCHANGED <<loading, result, error, calls>>

\* onSubmit of the form, which the enabled submit button fires.
handleSubmit ==
    /\ ~SubmitDisabled
    /\ Len(calls) < MaxPending
    /\ Start(handlePredict(input))
    /\ UNCHANGED input

\* The fetch of invocation i resolves with a response: the invocation goes on
\* to await response.json().
fetchResolves(i, response) ==
    /\ calls[i].stage = "fetch"
    /\ calls' = [calls EXCEPT ![i] = [@ EXCEPT !.stage = "json", !.response = Some(response)]]
    /\ UNCHANGED <<input, loading, result, error>>

\* The fetch of invocation i rejects.
fetchRejects(i, err) ==
    /\ calls[i].stage = "fetch"
    /\ Render(fetchRejected(err))
    /\ calls' = Remove(calls, i)
    /\ UNCHANGED input

\* response.json() of invocation i settles.
jsonSettles(i) ==
    /\ calls[i].stage = "json"
    /\ Render(jsonSettled(calls[i].response[1]))
    /\ calls' = Remove(calls, i)
    /\ UNCHANGED input

FetchSettles ==
    \E i \in 1..Len(calls) :
        \/ \E response \in Responses : fetchResolves(i, response)
        \/ \E err \in FetchErrors : fetchRejects(i, err)

JsonSettles == \E i \in 1..Len(calls) : jsonSettles(i)

Next ==
    \/ \E value \in Inputs : setInput(value)
    \/ handleSubmit
    \/ \E i \in 1..Len(calls), response \in Responses : fetchResolves(i, response)
    \/ \E i \in 1..Len(calls), err \in FetchErrors : fetchRejects(i, err)
    \/ \E i \in 1..Len(calls) : jsonSettles(i)

Spec == Init /\ [][Next]_vars

\* Every fetch and every body read settles.
FairSpec == Spec /\ WF_vars(FetchSettles) /\ WF_vars(JsonSettles)

---------------------------------------------------------------------------
(* The claims *)

UIState ==
    IF loading THEN "Loading"
    ELSE IF result # None THEN "Success"
    ELSE IF error # None THEN "Error"
    ELSE "Idle"

\* parseFeatures returned a vector for the text.
IsVector(parsed) == parsed.kind = "return" /\ parsed.value # None

\* The items of a text, trimmed.
ItemsOf(text) ==
    LET items == Split(Trim(text))
    IN  [i \in DOMAIN items |-> Trim(items[i])]

\* C1: at most one POST is in flight in every state, and while a request is
\* loading no step starts another one or changes the input, the result or the
\* error before the request completes.
C1_OneRequestInFlight ==
    [][/\ Len(calls') <= 1
       /\ loading => /\ Len(calls') <= Len(calls)
                     /\ input' = input
                     /\ loading' => (result' = result /\ error' = error)]_vars

\* A request is in flight, its response awaited, and the submit button is
\* disabled for a text that is not blank.
C1_Witness ==
    /\ Len(calls) = 1
    /\ calls[1].stage = "json"
    /\ loading
    /\ Trim(input) # <<>>
    /\ SubmitDisabled

\* C2: a submission of a text that fails validation issues no request and
\* sets an error message, and a step that issues a POST is taken only when
\* parseFeatures returns a vector for the current input, whose JSON is the
\* body of the POST.
C2_ParseBeforeSend ==
    [][/\ (input' = input /\ handleSubmit /\ ~IsVector(parseFeatures(input)))
            => (calls' = calls /\ error' # None /\ ~loading')
       /\ (Len(calls') > Len(calls))
            => /\ IsVector(parseFeatures(input))
               /\ calls'[Len(calls')].stage = "fetch"
               /\ calls'[Len(calls')].body = Stringify(parseFeatures(input).value[1])]_vars

\* A submission failed validation: the error of the current input is shown and
\* nothing is in flight.
C2_Witness ==
    /\ parseFeatures(input).kind = "throw"
    /\ error = Some(parseFeatures(input).err.message)
    /\ calls = <<>>
    /\ ~loading

LinearTransitions ==
    { <<"Idle", "Loading">>, <<"Loading", "Success">>, <<"Loading", "Error">>,
      <<"Success", "Loading">>, <<"Error", "Loading">> }

\* C3 as claimed: every change of UI state is Idle to Loading, Loading to
\* Success, Loading to Error, Success to Loading or Error to Loading.
C3_LinearTransitionsOnly ==
    [][UIState' # UIState => <<UIState, UIState'>> \in LinearTransitions]_vars

\* An OK response whose body is JSON null is being read.
NullBodyAwaited ==
    \E i \in 1..Len(calls) :
        /\ calls[i].stage = "json"
        /\ calls[i].response[1].ok
        /\ calls[i].response[1].body = Json(JsonNull)

\* C3 as amended: every change of UI state is one of the five claimed ones, or
\* Idle to Error or Success to Error on a submit whose input fails validation,
\* or Loading to Idle when an OK response with the body null is handled.
C3_Transitions ==
    [][UIState' # UIState =>
        \/ <<UIState, UIState'>> \in LinearTransitions
        \/ /\ UIState \in {"Idle", "Success"}
           /\ UIState' = "Error"
           /\ handleSubmit
           /\ parseFeatures(input).kind = "throw"
        \/ /\ UIState = "Loading"
           /\ UIState' = "Idle"
           /\ NullBodyAwaited]_vars

\* A validation failure is shown for a text of FeatureCount + 1 items.
C3_Witness ==
    /\ UIState = "Error"
    /\ error = Some(ExpectedCount(FeatureCount + 1))
    /\ calls = <<>>

\* C4: (loading, result, error) is one of Idle, Loading, Success and Error:
\* result and error are never both set, and neither is set while loading.
C4_FourStates ==
    \/ ~loading /\ result = None /\ error = None
    \/ loading /\ result = None /\ error = None
    \/ ~loading /\ result # None /\ error = None
    \/ ~loading /\ result = None /\ error # None

\* A result is shown.
C4_Witness == result # None /\ ~loading /\ error = None /\ calls = <<>>

\* C5: a step that finishes a handlePredict invocation leaves loading false,
\* and, every fetch and body read settling, every state with loading set leads
\* to a state with loading false and the submit button enabled.
C5_LoadingCleared ==
    /\ [][(\/ Len(calls') < Len(calls)
            \/ (input' = input /\ calls' = calls /\ handleSubmit)) => ~loading']_vars
    /\ loading ~> (~loading /\ ~SubmitDisabled)

\* A request failed with a non-OK response and the submit button is enabled
\* again.
C5_Witness ==
    /\ error = Some(<<"model unavailable">>)
    /\ ~loading
    /\ calls = <<>>
    /\ ~SubmitDisabled

\* The detail message a body supplies, None when it supplies none.
SuppliedDetail(body) ==
    IF /\ body.kind = "json"
       /\ body.value.kind = "object"
       /\ "detail" \in DOMAIN body.value.props
       /\ body.value.props.detail # <<"">>
    THEN Some(body.value.props.detail)
    ELSE None

\* C6: when the body of a non-OK response has been read, the error is the
\* detail message of the body when the body supplies one and otherwise the
\* message made of the status and the status text, and no result is set.
C6_DetailOrStatusMessage ==
    [][\A i \in 1..Len(calls) :
        (jsonSettles(i) /\ ~calls[i].response[1].ok) =>
            /\ result' = None
            /\ error' = IF SuppliedDetail(calls[i].response[1].body) # None
                        THEN SuppliedDetail(calls[i].response[1].body)
                        ELSE Some(HttpMessage(calls[i].response[1]))]_vars

NumeralChars == { Digits[i] : i \in 1..10 } \cup {"+", "-", ".", "e", "E"}

\* The item is a number: it converts and holds nothing a decimal number cannot
\* hold.
ValidNumber(item) ==
    /\ ~isNaN(parseFloat(item))
    /\ \A i \in 1..Len(item) : item[i] \in NumeralChars

InvalidItems(text) ==
    LET items == ItemsOf(text)
    IN  { i \in DOMAIN items : ~ValidNumber(items[i]) }

\* C7: for a submitted text with an item that is not a valid number,
\* parseFeatures throws an error whose message names such an item, and the
\* submit shows that error.
C7_InvalidItemNamed ==
    [][(input' = input /\ handleSubmit /\ InvalidItems(input) # {}) =>
        LET items == ItemsOf(input)
            parsed == parseFeatures(input)
        IN  /\ parsed.kind = "throw"
            /\ \E i \in InvalidItems(input) :
                  parsed.err.message = InvalidNumber(items[i])
            /\ error' = Some(parsed.err.message)]_vars

\* The count of valid numbers among the items of a text.
ValidCount(text) == Cardinality(DOMAIN ItemsOf(text) \ InvalidItems(text))

\* C8 as claimed: for a submitted text with fewer or more than FeatureCount
\* valid numbers, none included, parseFeatures throws an error that states the
\* count of the numbers, and the submit shows that error.
C8_CountStated ==
    [][(input' = input /\ handleSubmit /\ ValidCount(input) # FeatureCount) =>
        LET parsed == parseFeatures(input)
        IN  /\ parsed.kind = "throw"
            /\ parsed.err.message = ExpectedCount(ValidCount(input))
            /\ error' = Some(parsed.err.message)]_vars

\* Every item of the text converts to a number (parseFloat gives no NaN).
AllConvert(text) ==
    LET items == ItemsOf(text)
    IN  \A i \in DOMAIN items : ~isNaN(parseFloat(items[i]))

\* C8 as amended: for a text that is not blank, all of whose items convert and
\* whose item count is not FeatureCount, parseFeatures throws an error that
\* states the item count, and a submit shows it and issues no request; for a
\* blank text parseFeatures returns null.
C8_ItemCountStated ==
    /\ [](Trim(input) = <<>> => parseFeatures(input) = Returned(None))
    /\ []((Trim(input) # <<>> /\ AllConvert(input) /\ Len(ItemsOf(input)) # FeatureCount)
            => /\ parseFeatures(input).kind = "throw"
               /\ parseFeatures(input).err.message = ExpectedCount(Len(ItemsOf(input))))
    /\ [][(/\ input' = input
           /\ handleSubmit
           /\ AllConvert(input)
           /\ Len(ItemsOf(input)) # FeatureCount)
            => /\ error' = Some(ExpectedCount(Len(ItemsOf(input))))
               /\ calls' = calls]_vars

\* The count error of a text of FeatureCount + 1 numbers is shown.
C8_Witness ==
    /\ Len(ItemsOf(input)) = FeatureCount + 1
    /\ AllConvert(input)
    /\ error = Some(ExpectedCount(FeatureCount + 1))

\* C9: the features array in the body of every POST in flight has FeatureCount
\* elements and every element is a finite number.
C9_FiniteFeatures ==
    \A i \in 1..Len(calls) :
        /\ Len(calls[i].body.props.features) = FeatureCount
        /\ \A k \in 1..Len(calls[i].body.props.features) :
              /\ calls[i].body.props.features[k].kind = "number"
              /\ calls[i].body.props.features[k].num.kind = "finite"

\* The tier of the thresholds: low below 0.3, medium below 0.7, high from 0.7.
Tier(probability) ==
    IF probability < 30 THEN "low" ELSE IF probability < 70 THEN "medium" ELSE "high"

LevelTier == [Low |-> "low", Medium |-> "medium", High |-> "high"]

ColourTier ==
    "from-emerald-500 to-emerald-600" :> "low"
    @@ "from-amber-500 to-amber-600" :> "medium"
    @@ "from-red-500 to-red-600" :> "high"

TextTier ==
    "Low default risk" :> "low"
    @@ "Moderate risk" :> "medium"
    @@ "High probability of default" :> "high"

\* C10: for the probability of the result shown, the label of getRiskLevel,
\* the colour of the risk bar and the recommendation text are all of the tier
\* of the thresholds.
C10_SameTier ==
    result # None =>
        LET p == result[1].props.default_probability
        IN  /\ LevelTier[getRiskLevel(p).level] = Tier(p)
            /\ ColourTier[riskBarColour(p)] = Tier(p)
            /\ TextTier[recommendation(p)] = Tier(p)

====
